---- MODULE Spec2Model ----
(***************************************************************************)
(* Limit-order matching engine of rust-order-book                          *)
(* (src/src/engine/orderbook.rs).  Prices and quantities are small         *)
(* integers; an Option<T> is the empty sequence (None) or a one-element    *)
(* sequence (Some).  A ladder (BTreeMap<Price, PriceLevel>) is a function  *)
(* whose domain is the set of keys present.                                *)
(***************************************************************************)
EXTENDS Integers, Sequences, FiniteSets, TLC

\* Bounds of the model.
MaxOrders == 4
MaxPrice == 2
MaxQty == 2
MaxTs == 1
MaxCancels == 1
MaxConcCalls == 3
MaxRequests == 3
MaxLockCalls == 2
MaxRunCalls == 3
MaxCallTs == 2

\* Program constants.
Scale == 1000000

\* Order.quantity is an f64.  The quantity q of the model stands for
\* q / QtyUnit: the grid is half a millionth, finer than the millionths that
\* total_quantity counts.
QtyUnit == 2 * Scale

Prices == 1..MaxPrice
Quantities == 1..MaxQty
Timestamps == 1..MaxTs
\* user_id is only ever compared for equality (remove_order): one user submits
\* orders, and cancel requests come from that user and from a stranger.
Owners == {"u1"}
Users == Owners \cup {"u2"}
Sides == {"Bid", "Ask"}
Threads == {"t1", "t2"}
OrderIds == 1..MaxOrders

VARIABLES
    bids,            \* OrderBook.bids: price -> OrderQueue
    asks,            \* OrderBook.asks: price -> OrderQueue
    next_order_id,   \* OrderBook.next_order_id
    stats,           \* OrderBook.stats
    matching_lock,   \* OrderBook.matching_lock: None or Some(thread holding it)
    stats_lock,      \* writer of OrderBook.stats: None or Some(thread)
    pc,              \* per thread: position inside add_order / remove_order
    frame,           \* per thread: the locals of the running call
    history,         \* history: the calls that returned, in the order they returned
    submitted,       \* history: order id -> the order as it was submitted
    filled,          \* history: order id -> sum of quantities of trades naming it
    rested,          \* history: ids in the order in which they came to rest
    cancelled,       \* history: ids removed by a successful remove_order
    last             \* history: the call that completed last, with its result

vars == <<bids, asks, next_order_id, stats, matching_lock, stats_lock, pc, frame,
          history, submitted, filled, rested, cancelled, last>>

None == <<>>
Some(x) == <<x>>

Min(S) == CHOOSE x \in S : \A y \in S : x <= y
Max(S) == CHOOSE x \in S : \A y \in S : x >= y
MinOf(a, b) == IF a <= b THEN a ELSE b

RECURSIVE SumSeq(_)
SumSeq(s) == IF s = <<>> THEN 0 ELSE Head(s) + SumSeq(Tail(s))

\* AtomicUsize::fetch_add / fetch_sub wrap modulo 2^64.  The residue class is
\* kept by its representative of least absolute value: a negative v stands for
\* the wrapped value 2^64 + v.
WrapAdd(a, b) == a + b
WrapSub(a, b) == a - b

\* (quantity * 1_000_000.0) as usize: a float-to-integer cast, which drops the
\* fraction and saturates at 0.
ToMicro(quantity) ==
    IF quantity <= 0 THEN 0 ELSE (quantity * Scale) \div QtyUnit

----------------------------------------------------------------------------
\* Order, Trade

NewOrder(id, side, price, quantity, timestamp, user_id) ==
    [id |-> id, side |-> side, price |-> price, quantity |-> quantity,
     timestamp |-> timestamp, user_id |-> user_id]

NewTrade(bid_order_id, ask_order_id, price, quantity, timestamp) ==
    [bid_order_id |-> bid_order_id, ask_order_id |-> ask_order_id,
     price |-> price, quantity |-> quantity, timestamp |-> timestamp]

----------------------------------------------------------------------------
\* OrderQueue: orders (DashMap id -> Order), order_queue (SegQueue of ids),
\* total_quantity (AtomicUsize, in millionths).

OrderQueue_new == [orders |-> <<>>, order_queue |-> <<>>, total_quantity |-> 0]

MapPut(m, k, v) == [x \in (DOMAIN m) \cup {k} |-> IF x = k THEN v ELSE m[x]]
MapDel(m, k) == [x \in (DOMAIN m) \ {k} |-> m[x]]

OrderQueue_add_order(q, order) ==
    [orders |-> MapPut(q.orders, order.id, order),
     order_queue |-> Append(q.order_queue, order.id),
     total_quantity |-> WrapAdd(q.total_quantity, ToMicro(order.quantity))]

\* Mutant of OrderQueue_remove_order: the order is returned but stays stored.
OrderQueue_remove_order_Keep(q, order_id) ==
    IF order_id \in DOMAIN q.orders
    THEN [q |-> q, res |-> Some(q.orders[order_id])]
    ELSE [q |-> q, res |-> None]

\* Returns the queue after the call and the Option<Order> returned.
OrderQueue_remove_order(q, order_id) ==
    IF order_id \in DOMAIN q.orders
    THEN [q |-> [q EXCEPT !.orders = MapDel(q.orders, order_id),
                          !.total_quantity =
                              WrapSub(q.total_quantity,
                                      ToMicro(q.orders[order_id].quantity))],
          res |-> Some(q.orders[order_id])]
    ELSE [q |-> q, res |-> None]

OrderQueue_update_order(q, order_id, new_quantity) ==
    IF order_id \in DOMAIN q.orders
    THEN [q EXCEPT !.orders[order_id].quantity = new_quantity,
                   !.total_quantity =
                       WrapSub(WrapAdd(q.total_quantity, ToMicro(new_quantity)),
                               ToMicro(q.orders[order_id].quantity))]
    ELSE q

\* Mutant of OrderQueue_is_empty: a level never counts as empty.
OrderQueue_is_empty_Never(q) == FALSE

OrderQueue_is_empty(q) == DOMAIN q.orders = {}

OrderQueue_get_order(q, order_id) ==
    IF order_id \in DOMAIN q.orders THEN Some(q.orders[order_id]) ELSE None

\* Index of the first id of the SegQueue that is still in the DashMap, 0 if none.
FirstLive(q) ==
    LET live == {i \in 1..Len(q.order_queue) : q.order_queue[i] \in DOMAIN q.orders}
    IN IF live = {} THEN 0 ELSE Min(live)

\* Mutant of OrderQueue_get_first_order: the first order of a level is the one
\* with the earliest timestamp, whatever its place in the queue.
OrderQueue_get_first_order_ByTime(q) ==
    IF DOMAIN q.orders = {}
    THEN [q |-> q, res |-> None]
    ELSE LET id == CHOOSE x \in DOMAIN q.orders :
                       \A y \in DOMAIN q.orders :
                           \/ q.orders[x].timestamp < q.orders[y].timestamp
                           \/ /\ q.orders[x].timestamp = q.orders[y].timestamp
                              /\ x <= y
         IN [q |-> q, res |-> Some(q.orders[id])]

\* get_first_order pops ids until it meets one that is in the map, then pushes
\* every popped id (the one found included) back onto the tail of the SegQueue.
OrderQueue_get_first_order(q) ==
    LET i == FirstLive(q)
        n == Len(q.order_queue)
    IN IF i = 0
       THEN [q |-> q, res |-> None]
       ELSE [q |-> [q EXCEPT !.order_queue =
                        SubSeq(q.order_queue, i + 1, n) \o SubSeq(q.order_queue, 1, i)],
             res |-> Some(q.orders[q.order_queue[i]])]

\* remove_first_order pops ids until one of them is removed from the map.
OrderQueue_remove_first_order(q) ==
    LET i == FirstLive(q)
        n == Len(q.order_queue)
    IN IF i = 0
       THEN [q |-> [q EXCEPT !.order_queue = <<>>], res |-> None]
       ELSE OrderQueue_remove_order(
                [q EXCEPT !.order_queue = SubSeq(q.order_queue, i + 1, n)],
                q.order_queue[i])

----------------------------------------------------------------------------
\* Ladders and top of book

\* The order of the ladder keys (impl Ord for Price): prices compare as numbers.
PriceLeq(a, b) == a <= b

\* keys().next() and keys().next_back() of a non-empty ladder.
FirstKey(S) == CHOOSE x \in S : \A y \in S : PriceLeq(x, y)
LastKey(S) == CHOOSE x \in S : \A y \in S : PriceLeq(y, x)

\* Mutant of get_best_bid: the wrong end of the ladder.
get_best_bid_Lowest(b) == IF DOMAIN b = {} THEN None ELSE Some(FirstKey(DOMAIN b))

get_best_bid(b) == IF DOMAIN b = {} THEN None ELSE Some(LastKey(DOMAIN b))
get_best_ask(a) == IF DOMAIN a = {} THEN None ELSE Some(FirstKey(DOMAIN a))

\* (total_quantity as f64) / 1_000_000.0, kept as the exact fraction num/den.
OrderQueue_get_total_quantity(q) == [num |-> q.total_quantity, den |-> Scale]

\* iter() and iter().rev() of a ladder: the keys in ascending, descending order.
RECURSIVE KeysAscending(_)
KeysAscending(S) ==
    IF S = {} THEN <<>> ELSE <<FirstKey(S)>> \o KeysAscending(S \ {FirstKey(S)})

RECURSIVE KeysDescending(_)
KeysDescending(S) ==
    IF S = {} THEN <<>> ELSE <<LastKey(S)>> \o KeysDescending(S \ {LastKey(S)})

\* take(levels).map(|(price, level)| (price, level.get_total_quantity()))
TakeLevels(ladder, keys, levels) ==
    [i \in 1..MinOf(levels, Len(keys)) |->
        [price |-> keys[i],
         quantity |-> OrderQueue_get_total_quantity(ladder[keys[i]])]]

get_market_depth(b, a, levels) ==
    [bids |-> TakeLevels(b, KeysDescending(DOMAIN b), levels),
     asks |-> TakeLevels(a, KeysAscending(DOMAIN a), levels)]

\* entry(Price(price)).or_insert_with(PriceLevel::new).add_order(order)
LadderRest(ladder, order) ==
    LET level == IF order.price \in DOMAIN ladder THEN ladder[order.price]
                 ELSE OrderQueue_new
    IN MapPut(ladder, order.price, OrderQueue_add_order(level, order))

----------------------------------------------------------------------------
\* OrderBookStats

OrderBookStats_new ==
    [total_orders_created |-> 0, total_orders_matched |-> 0,
     total_orders_cancelled |-> 0, total_volume_traded |-> 0,
     best_bid |-> None, best_ask |-> None, spread |-> None, mid_price |-> None,
     last_match_time |-> None]

\* Mutant of update_market_data: the spread is taken the other way round.
update_market_data_Flipped(s, best_bid, best_ask) ==
    [s EXCEPT !.best_bid = best_bid,
              !.best_ask = best_ask,
              !.spread = IF best_bid # None /\ best_ask # None
                         THEN Some(best_bid[1] - best_ask[1]) ELSE None,
              !.mid_price = IF best_bid # None /\ best_ask # None
                            THEN Some([num |-> best_bid[1] + best_ask[1], den |-> 2])
                            ELSE None]

\* mid_price (bid + ask) / 2.0 is kept as the exact fraction num/den.
update_market_data(s, best_bid, best_ask) ==
    [s EXCEPT !.best_bid = best_bid,
              !.best_ask = best_ask,
              !.spread = IF best_bid # None /\ best_ask # None
                         THEN Some(best_ask[1] - best_bid[1]) ELSE None,
              !.mid_price = IF best_bid # None /\ best_ask # None
                            THEN Some([num |-> best_bid[1] + best_ask[1], den |-> 2])
                            ELSE None]

RECURSIVE TradeValueSum(_)
TradeValueSum(trades) ==
    IF trades = <<>> THEN 0
    ELSE Head(trades).price * Head(trades).quantity + TradeValueSum(Tail(trades))

\* Mutant of StatsOnAdd: a call that traded counts as one match.
StatsOnAdd_CountCalls(s, trades, timestamp) ==
    LET c == [s EXCEPT !.total_orders_created = @ + 1]
    IN IF trades # <<>>
       THEN [c EXCEPT !.total_orders_matched = @ + 1,
                      !.total_volume_traded = @ + TradeValueSum(trades),
                      !.last_match_time = Some(timestamp)]
       ELSE c

\* Mutant of StatsOnAdd: every call stamps last_match_time.
StatsOnAdd_AlwaysStamp(s, trades, timestamp) ==
    LET c == [s EXCEPT !.total_orders_created = @ + 1,
                       !.last_match_time = Some(timestamp)]
    IN IF trades # <<>>
       THEN [c EXCEPT !.total_orders_matched = @ + Len(trades),
                      !.total_volume_traded = @ + TradeValueSum(trades)]
       ELSE c

\* add_order's counters (lines 246-251), before update_stats_internal.
StatsOnAdd(s, trades, timestamp) ==
    LET c == [s EXCEPT !.total_orders_created = @ + 1]
    IN IF trades # <<>>
       THEN [c EXCEPT !.total_orders_matched = @ + Len(trades),
                      !.total_volume_traded = @ + TradeValueSum(trades),
                      !.last_match_time = Some(timestamp)]
       ELSE c

StatsOnCancel(s) == [s EXCEPT !.total_orders_cancelled = @ + 1]

update_stats_internal(s, b, a) ==
    update_market_data(s, get_best_bid(b), get_best_ask(a))

----------------------------------------------------------------------------
\* OrderBook::match_order

\* Mutants of Crosses: equal prices do not cross; the price test is missing.
Crosses_Strict(side, order_price, best_price) ==
    IF side = "Bid" THEN order_price > best_price ELSE order_price < best_price

Crosses_Always(side, order_price, best_price) == TRUE

\* Mutant of Crosses: a Bid at the best ask's price does not cross.
Crosses_BidStrict(side, order_price, best_price) ==
    IF side = "Bid" THEN order_price > best_price ELSE ~(order_price > best_price)

\* The negation of the loop's price test: `order.price < ask_price` (Bid) and
\* `order.price > bid_price` (Ask) leave the loop.
Crosses(side, order_price, best_price) ==
    IF side = "Bid" THEN ~(order_price < best_price) ELSE ~(order_price > best_price)

\* Mutant of TradeQuantity: the maker's whole quantity is traded.
TradeQuantity_Maker(order, maker) == maker.quantity

TradeQuantity(order, maker) == MinOf(order.quantity, maker.quantity)

\* Mutant of TradeFor: the trade is priced at the inbound order's limit.
TradeFor_TakerPrice(order, maker, level_price, trade_quantity) ==
    IF order.side = "Bid"
    THEN NewTrade(order.id, maker.id, order.price, trade_quantity,
                  MinOf(order.timestamp, maker.timestamp))
    ELSE NewTrade(maker.id, order.id, order.price, trade_quantity,
                  MinOf(order.timestamp, maker.timestamp))

\* Mutant of TradeFor: the trade carries the inbound order's timestamp.
TradeFor_TakerTime(order, maker, level_price, trade_quantity) ==
    IF order.side = "Bid"
    THEN NewTrade(order.id, maker.id, level_price, trade_quantity, order.timestamp)
    ELSE NewTrade(maker.id, order.id, level_price, trade_quantity, order.timestamp)

\* Trade::new(bid id, ask id, level price, quantity, min of the two timestamps)
TradeFor(order, maker, level_price, trade_quantity) ==
    IF order.side = "Bid"
    THEN NewTrade(order.id, maker.id, level_price, trade_quantity,
                  MinOf(order.timestamp, maker.timestamp))
    ELSE NewTrade(maker.id, order.id, level_price, trade_quantity,
                  MinOf(order.timestamp, maker.timestamp))

BestOpposite(side, opp) == IF side = "Bid" THEN get_best_ask(opp) ELSE get_best_bid(opp)

\* Head of one loop iteration: Some(price) to trade at, None to leave the loop.
MatchPeek(opp, order) ==
    LET best == BestOpposite(order.side, opp)
    IN IF best = None \/ order.quantity <= 0 THEN None
       ELSE IF ~Crosses(order.side, order.price, best[1]) THEN None
       ELSE best

\* What the maker's level becomes once trade_quantity has been traded against
\* the order get_first_order returned.
LevelAfterTrade(level, maker, trade_quantity) ==
    IF maker.quantity <= trade_quantity
    THEN OrderQueue_remove_first_order(level).q
    ELSE OrderQueue_update_order(level, maker.id, maker.quantity - trade_quantity)

\* Mutant of MatchBody: an order does not trade against a resting order of its
\* own user; the loop stops there.
MatchBody_NoSelfTrade(m, level_price) ==
    IF level_price \notin DOMAIN m.opp
    THEN [m EXCEPT !.cont = FALSE]
    ELSE LET g == OrderQueue_get_first_order(m.opp[level_price])
         IN IF g.res = None
            THEN [m EXCEPT !.opp[level_price] = g.q, !.cont = FALSE]
            ELSE IF g.res[1].user_id = m.order.user_id
            THEN [m EXCEPT !.cont = FALSE]
            ELSE LET maker == g.res[1]
                     trade_quantity == TradeQuantity(m.order, maker)
                     level == LevelAfterTrade(g.q, maker, trade_quantity)
                 IN [opp |-> IF OrderQueue_is_empty(level)
                             THEN MapDel(m.opp, level_price)
                             ELSE [m.opp EXCEPT ![level_price] = level],
                     order |-> [m.order EXCEPT !.quantity = @ - trade_quantity],
                     trades |-> Append(m.trades,
                                       TradeFor(m.order, maker, level_price,
                                                trade_quantity)),
                     seen |-> Append(m.seen,
                                     {p \in DOMAIN m.opp :
                                         ~OrderQueue_is_empty(m.opp[p])}),
                     cont |-> TRUE]

\* Rest of one loop iteration, under the opposite ladder's write lock.  m holds
\* the opposite ladder, the inbound order, the trades so far and (history) the
\* opposite prices that hold a resting order at the moment of each trade.
MatchBody(m, level_price) ==
    IF level_price \notin DOMAIN m.opp
    THEN [m EXCEPT !.cont = FALSE]
    ELSE LET g == OrderQueue_get_first_order(m.opp[level_price])
         IN IF g.res = None
            THEN [m EXCEPT !.opp[level_price] = g.q, !.cont = FALSE]
            ELSE LET maker == g.res[1]
                     trade_quantity == TradeQuantity(m.order, maker)
                     level == LevelAfterTrade(g.q, maker, trade_quantity)
                 IN [opp |-> IF OrderQueue_is_empty(level)
                             THEN MapDel(m.opp, level_price)
                             ELSE [m.opp EXCEPT ![level_price] = level],
                     order |-> [m.order EXCEPT !.quantity = @ - trade_quantity],
                     trades |-> Append(m.trades,
                                       TradeFor(m.order, maker, level_price,
                                                trade_quantity)),
                     seen |-> Append(m.seen,
                                     {p \in DOMAIN m.opp :
                                         ~OrderQueue_is_empty(m.opp[p])}),
                     cont |-> TRUE]

RECURSIVE match_loop(_)
match_loop(m) ==
    LET peek == MatchPeek(m.opp, m.order)
    IN IF peek = None THEN m
       ELSE LET n == MatchBody(m, peek[1])
            IN IF n.cont THEN match_loop(n) ELSE n

MatchStart(opp, order) ==
    [opp |-> opp, order |-> order, trades |-> <<>>, seen |-> <<>>, cont |-> TRUE]

match_order(b, a, order) ==
    LET m == match_loop(MatchStart(IF order.side = "Bid" THEN a ELSE b, order))
    IN [bids |-> IF order.side = "Bid" THEN b ELSE m.opp,
        asks |-> IF order.side = "Bid" THEN m.opp ELSE a,
        order |-> m.order, trades |-> m.trades, seen |-> m.seen]

\* Mutant of RestResidue: the order rests whatever is left of it.
RestResidue_Always(b, a, order) ==
    IF order.side = "Bid"
    THEN [bids |-> LadderRest(b, order), asks |-> a]
    ELSE [bids |-> b, asks |-> LadderRest(a, order)]

\* add_order lines 227-242: the residue rests on its own side.
RestResidue(b, a, order) ==
    IF order.quantity > 0
    THEN IF order.side = "Bid"
         THEN [bids |-> LadderRest(b, order), asks |-> a]
         ELSE [bids |-> b, asks |-> LadderRest(a, order)]
    ELSE [bids |-> b, asks |-> a]

\* Mutant of remove_order_scan: the user is not compared.
remove_order_scan_AnyUser(ladder, order_id, user_id) ==
    LET hits == {p \in DOMAIN ladder :
                    OrderQueue_get_order(ladder[p], order_id) # None}
    IN IF hits = {}
       THEN [ladder |-> ladder, res |-> None]
       ELSE LET p == FirstKey(hits)
                r == OrderQueue_remove_order(ladder[p], order_id)
            IN [ladder |-> IF OrderQueue_is_empty(r.q) THEN MapDel(ladder, p)
                           ELSE [ladder EXCEPT ![p] = r.q],
                res |-> r.res]

\* One of remove_order's two scans: the first level, in key order, that holds
\* order_id for user_id loses it, and is dropped when that empties it.
remove_order_scan(ladder, order_id, user_id) ==
    LET hits == {p \in DOMAIN ladder :
                    /\ OrderQueue_get_order(ladder[p], order_id) # None
                    /\ ladder[p].orders[order_id].user_id = user_id}
    IN IF hits = {}
       THEN [ladder |-> ladder, res |-> None]
       ELSE LET p == FirstKey(hits)
                r == OrderQueue_remove_order(ladder[p], order_id)
            IN [ladder |-> IF OrderQueue_is_empty(r.q) THEN MapDel(ladder, p)
                           ELSE [ladder EXCEPT ![p] = r.q],
                res |-> r.res]

----------------------------------------------------------------------------
\* api/routes.rs: what create_order and delete_order report about a call

RECURSIVE filled_quantity(_)
filled_quantity(trades) ==
    IF trades = <<>> THEN 0
    ELSE Head(trades).quantity + filled_quantity(Tail(trades))

remaining_quantity(quantity, trades) == quantity - filled_quantity(trades)

\* Mutant of OrderStatus: every submit that traded is reported as Filled.
OrderStatus_NoPartial(quantity, trades) ==
    IF filled_quantity(trades) = 0 THEN "New" ELSE "Filled"

OrderStatus(quantity, trades) ==
    IF filled_quantity(trades) = 0 THEN "New"
    ELSE IF remaining_quantity(quantity, trades) > 0 THEN "PartiallyFilled"
    ELSE "Filled"

\* u64::to_string: the decimal digits, as a sequence of characters.
Digit(d) == <<"0", "1", "2", "3", "4", "5", "6", "7", "8", "9">>[d + 1]

RECURSIVE to_string(_)
to_string(n) ==
    IF n < 10 THEN <<Digit(n)>> ELSE Append(to_string(n \div 10), Digit(n % 10))

\* api/types.rs, impl From<&Trade> for Fill
FillFrom(trade) ==
    [trade_id |-> to_string(trade.bid_order_id) \o <<"_">>
                    \o to_string(trade.ask_order_id),
     quantity |-> trade.quantity,
     price |-> trade.price,
     maker_order_id |-> to_string(trade.bid_order_id),
     taker_order_id |-> to_string(trade.ask_order_id),
     timestamp |-> trade.timestamp]

----------------------------------------------------------------------------
\* History kept for the properties

TradeNames(t, id) == t.bid_order_id = id \/ t.ask_order_id = id

RECURSIVE QtyNaming(_, _)
QtyNaming(trades, id) ==
    IF trades = <<>> THEN 0
    ELSE (IF TradeNames(Head(trades), id) THEN Head(trades).quantity ELSE 0)
         + QtyNaming(Tail(trades), id)

FilledAfter(f, trades) ==
    [id \in OrderIds |-> f[id] + QtyNaming(trades, id)]

NoCall ==
    [op |-> "none", order_id |-> 0, side |-> "none", price |-> 0, quantity |-> 0,
     timestamp |-> 0, user_id |-> "none", trades |-> <<>>, seen |-> <<>>,
     removed |-> None, depth |-> None, snapshot |-> None, best |-> None]

AddCall(order, trades, seen) ==
    [op |-> "add_order", order_id |-> order.id, side |-> order.side,
     price |-> order.price, quantity |-> order.quantity,
     timestamp |-> order.timestamp, user_id |-> order.user_id,
     trades |-> trades, seen |-> seen, removed |-> None, depth |-> None,
     snapshot |-> None, best |-> None]

RemoveCall(order_id, user_id, removed) ==
    [NoCall EXCEPT !.op = "remove_order", !.order_id = order_id,
                   !.user_id = user_id, !.removed = removed]

\* The locals of a call in progress: the call as it will be reported, the
\* inbound order with its remaining quantity, the price match_order peeked and
\* the best bid update_stats_internal read; and (history) the number of orders
\* that rested on the opposite side when the call began.
NoFrame ==
    [call |-> NoCall, order |-> NewOrder(0, "none", 0, 0, 0, "none"),
     peek |-> None, best_bid |-> None, resting |-> 0]

\* The number of orders a ladder holds.
RECURSIVE OrdersResting(_)
OrdersResting(ladder) ==
    IF DOMAIN ladder = {} THEN 0
    ELSE LET p == CHOOSE x \in DOMAIN ladder : TRUE
         IN Cardinality(DOMAIN ladder[p].orders) + OrdersResting(MapDel(ladder, p))

----------------------------------------------------------------------------
\* Sequential calls: each action is one whole call of the public API.

Init ==
    /\ bids = <<>>
    /\ asks = <<>>
    /\ next_order_id = 1
    /\ stats = OrderBookStats_new
    /\ matching_lock = None
    /\ stats_lock = None
    /\ pc = [t \in Threads |-> "idle"]
    /\ frame = [t \in Threads |-> NoFrame]
    /\ history = <<>>
    /\ submitted = <<>>
    /\ filled = [id \in OrderIds |-> 0]
    /\ rested = <<>>
    /\ cancelled = {}
    /\ last = NoCall

AddOrder(side, price, quantity, timestamp, user_id) ==
    /\ next_order_id <= MaxOrders
    /\ LET order == NewOrder(next_order_id, side, price, quantity, timestamp, user_id)
           m == match_order(bids, asks, order)
           r == RestResidue(m.bids, m.asks, m.order)
       IN /\ next_order_id' = next_order_id + 1
          /\ bids' = r.bids
          /\ asks' = r.asks
          /\ stats' = update_stats_internal(
                          StatsOnAdd(stats, m.trades, timestamp), r.bids, r.asks)
          /\ submitted' = MapPut(submitted, order.id, order)
          /\ filled' = FilledAfter(filled, m.trades)
          /\ rested' = IF m.order.quantity > 0 THEN Append(rested, order.id)
                       ELSE rested
          /\ last' = AddCall(order, m.trades, m.seen)
    /\ UNCHANGED <<matching_lock, stats_lock, pc, frame, history, cancelled>>

\* The exploration stops asking for new cancels once MaxCancels have succeeded;
\* a cancelled id may be asked for again at any time.
RemoveOrder(order_id, user_id) ==
    /\ Cardinality(cancelled) < MaxCancels \/ order_id \in cancelled
    /\ LET rb == remove_order_scan(bids, order_id, user_id)
           ra == IF rb.res = None THEN remove_order_scan(asks, order_id, user_id)
                 ELSE [ladder |-> asks, res |-> None]
           removed == IF rb.res # None THEN rb.res ELSE ra.res
       IN /\ bids' = rb.ladder
          /\ asks' = ra.ladder
          /\ stats' = IF removed # None
                      THEN update_stats_internal(StatsOnCancel(stats),
                                                 rb.ladder, ra.ladder)
                      ELSE stats
          /\ cancelled' = IF removed # None THEN cancelled \cup {order_id}
                          ELSE cancelled
          /\ last' = RemoveCall(order_id, user_id, removed)
    /\ UNCHANGED <<next_order_id, matching_lock, stats_lock, pc, frame, history,
                   submitted, filled, rested>>

AddOrderCall ==
    \E side \in Sides, price \in Prices, quantity \in Quantities,
       timestamp \in Timestamps, user_id \in Owners :
        AddOrder(side, price, quantity, timestamp, user_id)

RemoveOrderCall ==
    \E order_id \in OrderIds, user_id \in Users : RemoveOrder(order_id, user_id)

Next == AddOrderCall \/ RemoveOrderCall

Spec == Init /\ [][Next]_vars

----------------------------------------------------------------------------
\* Sequential calls of the whole public API: add_order, remove_order and
\* clear, which no route of the service calls.  A remove_order that fails
\* changes nothing but the record of the last call (Spec explores those): the
\* cancel requests made here are an owner's, for an order stored in the book.

ClearCall == [NoCall EXCEPT !.op = "clear"]

\* Mutant of Clear: the id counter starts again, like the rest of the book.
Clear_ResetIds ==
    /\ bids' = <<>>
    /\ asks' = <<>>
    /\ stats' = OrderBookStats_new
    /\ next_order_id' = 1
    /\ last' = ClearCall
    /\ UNCHANGED <<matching_lock, stats_lock, pc, frame, history, submitted,
                   filled, rested, cancelled>>

\* clear empties both ladders and replaces the statistics; next_order_id is
\* not touched.
Clear ==
    /\ bids' = <<>>
    /\ asks' = <<>>
    /\ stats' = OrderBookStats_new
    /\ last' = ClearCall
    /\ UNCHANGED <<next_order_id, matching_lock, stats_lock, pc, frame, history,
                   submitted, filled, rested, cancelled>>

CancelStoredCall ==
    \E order_id \in OrderIds, user_id \in Owners :
        /\ \E p \in DOMAIN bids \cup DOMAIN asks :
              \/ p \in DOMAIN bids /\ order_id \in DOMAIN bids[p].orders
              \/ p \in DOMAIN asks /\ order_id \in DOMAIN asks[p].orders
        /\ RemoveOrder(order_id, user_id)

NextClear == AddOrderCall \/ CancelStoredCall \/ Clear

SpecClear == Init /\ [][NextClear]_vars

----------------------------------------------------------------------------
\* Sequential requests to the service.  create_order hands the price and the
\* quantity of the request body to add_order as they are: the requests drawn
\* here include a price and a quantity that are not positive.

RequestPrices == 0..MaxPrice
RequestQuantities == 0..MaxQty

CreateOrderCall ==
    /\ next_order_id <= MaxRequests
    /\ \E side \in Sides, price \in RequestPrices, quantity \in RequestQuantities,
          timestamp \in Timestamps, user_id \in Owners :
           AddOrder(side, price, quantity, timestamp, user_id)

NextApi == CreateOrderCall \/ CancelStoredCall

SpecApi == Init /\ [][NextApi]_vars

----------------------------------------------------------------------------
\* Concurrent calls: threads run add_order and remove_order step by step.  A
\* step is what a thread does between two lock operations: a RwLock guard that
\* is taken and dropped inside one step needs no variable, matching_lock and
\* the stats write guard are held across steps.

OppositeLadder(side) == IF side = "Bid" THEN asks ELSE bids

CallsBegun == Len(history) + Cardinality({t \in Threads : pc[t] # "idle"})

\* add_order line 221-222: the id is taken and the order built.
T_AddStart(t, side, price, quantity, timestamp, user_id) ==
    /\ pc[t] = "idle"
    /\ CallsBegun < MaxConcCalls
    /\ next_order_id <= MaxOrders
    /\ LET order == NewOrder(next_order_id, side, price, quantity, timestamp, user_id)
       IN /\ frame' = [frame EXCEPT ![t] =
                          [NoFrame EXCEPT !.call = AddCall(order, <<>>, <<>>),
                                          !.order = order,
                                          !.resting = OrdersResting(
                                                          OppositeLadder(side))]]
          /\ submitted' = MapPut(submitted, order.id, order)
    /\ next_order_id' = next_order_id + 1
    /\ pc' = [pc EXCEPT ![t] = "match_lock"]
    /\ UNCHANGED <<bids, asks, stats, matching_lock, stats_lock, history, filled,
                   rested, cancelled, last>>

\* match_order line 259
T_MatchLock(t) ==
    /\ pc[t] = "match_lock"
    /\ matching_lock = None
    /\ matching_lock' = Some(t)
    /\ pc' = [pc EXCEPT ![t] = "match_peek"]
    /\ UNCHANGED <<bids, asks, next_order_id, stats, stats_lock, frame, history,
                   submitted, filled, rested, cancelled, last>>

\* match_order lines 266-274 / 311-319: peek under a read guard, test, or break.
T_MatchPeek(t) ==
    /\ pc[t] = "match_peek"
    /\ LET peek == MatchPeek(OppositeLadder(frame[t].order.side), frame[t].order)
       IN /\ frame' = [frame EXCEPT ![t].peek = peek]
          /\ pc' = [pc EXCEPT ![t] = IF peek = None THEN "match_unlock"
                                     ELSE "match_body"]
    /\ UNCHANGED <<bids, asks, next_order_id, stats, matching_lock, stats_lock,
                   history, submitted, filled, rested, cancelled, last>>

\* match_order lines 276-305 / 321-350: one trade under the write guard.
T_MatchBody(t) ==
    /\ pc[t] = "match_body"
    /\ LET f == frame[t]
           m == [opp |-> OppositeLadder(f.order.side), order |-> f.order,
                 trades |-> f.call.trades, seen |-> f.call.seen, cont |-> TRUE]
           n == MatchBody(m, f.peek[1])
       IN /\ IF f.order.side = "Bid"
             THEN asks' = n.opp /\ bids' = bids
             ELSE bids' = n.opp /\ asks' = asks
          /\ frame' = [frame EXCEPT ![t].order = n.order,
                                    ![t].call.trades = n.trades,
                                    ![t].call.seen = n.seen,
                                    ![t].peek = None]
          /\ filled' = FilledAfter(filled,
                                   SubSeq(n.trades, Len(m.trades) + 1, Len(n.trades)))
          /\ pc' = [pc EXCEPT ![t] = IF n.cont THEN "match_peek" ELSE "match_unlock"]
    /\ UNCHANGED <<next_order_id, stats, matching_lock, stats_lock, history,
                   submitted, rested, cancelled, last>>

\* match_order returns: _lock is dropped (line 356).
T_MatchUnlock(t) ==
    /\ pc[t] = "match_unlock"
    /\ matching_lock' = None
    /\ pc' = [pc EXCEPT ![t] = "rest"]
    /\ UNCHANGED <<bids, asks, next_order_id, stats, stats_lock, frame, history,
                   submitted, filled, rested, cancelled, last>>

\* add_order lines 227-242
T_Rest(t) ==
    /\ pc[t] = "rest"
    /\ LET r == RestResidue(bids, asks, frame[t].order)
       IN bids' = r.bids /\ asks' = r.asks
    /\ rested' = IF frame[t].order.quantity > 0
                 THEN Append(rested, frame[t].order.id) ELSE rested
    /\ pc' = [pc EXCEPT ![t] = "stats_lock"]
    /\ UNCHANGED <<next_order_id, stats, matching_lock, stats_lock, frame, history,
                   submitted, filled, cancelled, last>>

\* remove_order lines 361-376: the scan of the bids, under their write guard.
T_RemoveStart(t, order_id, user_id) ==
    /\ pc[t] = "idle"
    /\ CallsBegun < MaxConcCalls
    /\ Cardinality(cancelled) < MaxCancels \/ order_id \in cancelled
    /\ LET r == remove_order_scan(bids, order_id, user_id)
       IN /\ bids' = r.ladder
          /\ frame' = [frame EXCEPT ![t] =
                          [NoFrame EXCEPT !.call = RemoveCall(order_id, user_id, r.res)]]
          /\ cancelled' = IF r.res # None THEN cancelled \cup {order_id}
                          ELSE cancelled
          /\ pc' = [pc EXCEPT ![t] = IF r.res = None THEN "remove_asks"
                                     ELSE "stats_lock"]
    /\ UNCHANGED <<asks, next_order_id, stats, matching_lock, stats_lock, history,
                   submitted, filled, rested, last>>

\* remove_order lines 378-393 and, when nothing was removed, the return.
T_RemoveAsks(t) ==
    /\ pc[t] = "remove_asks"
    /\ LET c == frame[t].call
           r == remove_order_scan(asks, c.order_id, c.user_id)
           done == [c EXCEPT !.removed = r.res]
       IN /\ asks' = r.ladder
          /\ frame' = [frame EXCEPT ![t].call = done]
          /\ cancelled' = IF r.res # None THEN cancelled \cup {c.order_id}
                          ELSE cancelled
          /\ IF r.res = None
             THEN /\ pc' = [pc EXCEPT ![t] = "idle"]
                  /\ history' = Append(history, done)
                  /\ last' = done
             ELSE /\ pc' = [pc EXCEPT ![t] = "stats_lock"]
                  /\ UNCHANGED <<history, last>>
    /\ UNCHANGED <<bids, next_order_id, stats, matching_lock, stats_lock,
                   submitted, filled, rested>>

\* self.stats.write() and the counters: lines 245-251 and 396-397.
T_StatsLock(t) ==
    /\ pc[t] = "stats_lock"
    /\ stats_lock = None
    /\ stats_lock' = Some(t)
    /\ stats' = IF frame[t].call.op = "add_order"
                THEN StatsOnAdd(stats, frame[t].call.trades, frame[t].call.timestamp)
                ELSE StatsOnCancel(stats)
    /\ pc' = [pc EXCEPT ![t] = "stats_bid"]
    /\ UNCHANGED <<bids, asks, next_order_id, matching_lock, frame, history,
                   submitted, filled, rested, cancelled, last>>

\* update_stats_internal line 445
T_StatsBid(t) ==
    /\ pc[t] = "stats_bid"
    /\ frame' = [frame EXCEPT ![t].best_bid = get_best_bid(bids)]
    /\ pc' = [pc EXCEPT ![t] = "stats_ask"]
    /\ UNCHANGED <<bids, asks, next_order_id, stats, matching_lock, stats_lock,
                   history, submitted, filled, rested, cancelled, last>>

\* update_stats_internal lines 446-447, the guard is dropped and the call returns.
T_StatsAsk(t) ==
    /\ pc[t] = "stats_ask"
    /\ stats' = update_market_data(stats, frame[t].best_bid, get_best_ask(asks))
    /\ stats_lock' = None
    /\ pc' = [pc EXCEPT ![t] = "idle"]
    /\ history' = Append(history, frame[t].call)
    /\ last' = frame[t].call
    /\ UNCHANGED <<bids, asks, next_order_id, matching_lock, frame, submitted,
                   filled, rested, cancelled>>

T_AddOrderCall(t) ==
    \E side \in Sides, price \in Prices, quantity \in Quantities,
       timestamp \in Timestamps, user_id \in Owners :
        T_AddStart(t, side, price, quantity, timestamp, user_id)

T_RemoveOrderCall(t) ==
    \E order_id \in OrderIds, user_id \in Users : T_RemoveStart(t, order_id, user_id)

NextConc ==
    \E t \in Threads :
        \/ T_AddOrderCall(t)
        \/ T_MatchLock(t)
        \/ T_MatchPeek(t)
        \/ T_MatchBody(t)
        \/ T_MatchUnlock(t)
        \/ T_Rest(t)
        \/ T_RemoveOrderCall(t)
        \/ T_RemoveAsks(t)
        \/ T_StatsLock(t)
        \/ T_StatsBid(t)
        \/ T_StatsAsk(t)

SpecConc == Init /\ [][NextConc]_vars

----------------------------------------------------------------------------
\* Concurrent calls of the whole public API.  clear is the one call that keeps
\* a ladder's write guard across steps: a thread between its clear steps holds
\* the guard of the bids, and after the second step that of the asks too.
\* Every other step that reads or writes a ladder waits for that guard.

WriteHeld(ladder) ==
    \E t \in Threads :
        \/ pc[t] = "clear_stats"
        \/ pc[t] = "clear_asks" /\ ladder = "bids"

\* The ladder an add_order call in progress matches against, and its own.
OppositeName(t) == IF frame[t].order.side = "Bid" THEN "asks" ELSE "bids"
OwnName(t) == IF frame[t].order.side = "Bid" THEN "bids" ELSE "asks"

\* clear line 451: self.bids.write()
T_ClearStart(t) ==
    /\ pc[t] = "idle"
    /\ ~WriteHeld("bids")
    /\ frame' = [frame EXCEPT ![t] = [NoFrame EXCEPT !.call = ClearCall]]
    /\ pc' = [pc EXCEPT ![t] = "clear_asks"]
    /\ UNCHANGED <<bids, asks, next_order_id, stats, matching_lock, stats_lock,
                   history, submitted, filled, rested, cancelled, last>>

\* clear lines 452-454: self.asks.write(), then both ladders are emptied.
T_ClearAsks(t) ==
    /\ pc[t] = "clear_asks"
    /\ ~WriteHeld("asks")
    /\ bids' = <<>>
    /\ asks' = <<>>
    /\ pc' = [pc EXCEPT ![t] = "clear_stats"]
    /\ UNCHANGED <<next_order_id, stats, matching_lock, stats_lock, frame, history,
                   submitted, filled, rested, cancelled, last>>

\* clear lines 456-458: self.stats.write(), the statistics are replaced and
\* the three guards are dropped.
T_ClearStats(t) ==
    /\ pc[t] = "clear_stats"
    /\ stats_lock = None
    /\ stats' = OrderBookStats_new
    /\ pc' = [pc EXCEPT ![t] = "idle"]
    /\ history' = Append(history, frame[t].call)
    /\ last' = frame[t].call
    /\ UNCHANGED <<bids, asks, next_order_id, matching_lock, stats_lock, frame,
                   submitted, filled, rested, cancelled>>

\* get_stats: self.stats.read().clone()
T_GetStats(t) ==
    /\ pc[t] = "idle"
    /\ stats_lock = None
    /\ LET done == [NoCall EXCEPT !.op = "get_stats", !.snapshot = Some(stats)]
       IN /\ history' = Append(history, done)
          /\ last' = done
    /\ UNCHANGED <<bids, asks, next_order_id, stats, matching_lock, stats_lock, pc,
                   frame, submitted, filled, rested, cancelled>>

\* get_market_depth lines 420-427: the bids, under their read guard.
T_DepthStart(t, levels) ==
    /\ pc[t] = "idle"
    /\ ~WriteHeld("bids")
    /\ frame' = [frame EXCEPT ![t] =
                    [NoFrame EXCEPT
                        !.call = [NoCall EXCEPT
                                     !.op = "get_market_depth",
                                     !.quantity = levels,
                                     !.depth = Some(get_market_depth(
                                                        bids, <<>>, levels))]]]
    /\ pc' = [pc EXCEPT ![t] = "depth_asks"]
    /\ UNCHANGED <<bids, asks, next_order_id, stats, matching_lock, stats_lock,
                   history, submitted, filled, rested, cancelled, last>>

\* get_market_depth lines 429-437: the asks, under their read guard.
T_DepthAsks(t) ==
    /\ pc[t] = "depth_asks"
    /\ ~WriteHeld("asks")
    /\ LET c == frame[t].call
           done == [c EXCEPT !.depth =
                       Some([bids |-> c.depth[1].bids,
                             asks |-> get_market_depth(<<>>, asks, c.quantity).asks])]
       IN /\ history' = Append(history, done)
          /\ last' = done
    /\ pc' = [pc EXCEPT ![t] = "idle"]
    /\ UNCHANGED <<bids, asks, next_order_id, stats, matching_lock, stats_lock,
                   frame, submitted, filled, rested, cancelled>>

\* The service asks for 20 levels; any depth beyond the number of prices
\* gives the same answer.
T_DepthCall(t) == T_DepthStart(t, MaxPrice + 1)

NextLocks ==
    \E t \in Threads :
        \/ CallsBegun < MaxLockCalls /\ T_AddOrderCall(t)
        \/ T_MatchLock(t)
        \/ ~WriteHeld(OppositeName(t)) /\ T_MatchPeek(t)
        \/ ~WriteHeld(OppositeName(t)) /\ T_MatchBody(t)
        \/ T_MatchUnlock(t)
        \/ (frame[t].order.quantity > 0 => ~WriteHeld(OwnName(t))) /\ T_Rest(t)
        \/ CallsBegun < MaxLockCalls /\ ~WriteHeld("bids") /\ T_RemoveOrderCall(t)
        \/ ~WriteHeld("asks") /\ T_RemoveAsks(t)
        \/ T_StatsLock(t)
        \/ ~WriteHeld("bids") /\ T_StatsBid(t)
        \/ ~WriteHeld("asks") /\ T_StatsAsk(t)
        \/ CallsBegun < MaxLockCalls /\ T_ClearStart(t)
        \/ T_ClearAsks(t)
        \/ T_ClearStats(t)
        \/ CallsBegun < MaxLockCalls /\ T_GetStats(t)
        \/ CallsBegun < MaxLockCalls /\ T_DepthCall(t)
        \/ T_DepthAsks(t)

SpecLocks == Init /\ [][NextLocks]_vars

----------------------------------------------------------------------------
\* Recorded runs: whole calls of the public API made one after another, reads
\* included, with timestamps and users that differ from call to call.  Each
\* call is a function from the book to the book and the call's result, so
\* that a recorded run can be made again with other inputs.

CallTimes == 1..MaxCallTs
Reads == {"get_best_bid", "get_best_ask", "get_spread", "get_market_depth",
          "get_stats"}

\* The book a call runs on: ladders, statistics, id counter and the results
\* of the calls made so far.
NewBook ==
    [bids |-> <<>>, asks |-> <<>>, stats |-> OrderBookStats_new,
     next_order_id |-> 1, results |-> <<>>]

ThisBook ==
    [bids |-> bids, asks |-> asks, stats |-> stats,
     next_order_id |-> next_order_id, results |-> history]

\* add_order with the inputs of call c.
ApiAdd(s, c) ==
    LET order == NewOrder(s.next_order_id, c.side, c.price, c.quantity,
                          c.timestamp, c.user_id)
        m == match_order(s.bids, s.asks, order)
        r == RestResidue(m.bids, m.asks, m.order)
    IN [bids |-> r.bids, asks |-> r.asks,
        stats |-> update_stats_internal(
                      StatsOnAdd(s.stats, m.trades, c.timestamp), r.bids, r.asks),
        next_order_id |-> s.next_order_id + 1,
        results |-> Append(s.results, AddCall(order, m.trades, m.seen))]

\* remove_order with the inputs of call c.
ApiRemove(s, c) ==
    LET rb == remove_order_scan(s.bids, c.order_id, c.user_id)
        ra == IF rb.res = None
              THEN remove_order_scan(s.asks, c.order_id, c.user_id)
              ELSE [ladder |-> s.asks, res |-> None]
        removed == IF rb.res # None THEN rb.res ELSE ra.res
    IN [bids |-> rb.ladder, asks |-> ra.ladder,
        stats |-> IF removed # None
                  THEN update_stats_internal(StatsOnCancel(s.stats),
                                             rb.ladder, ra.ladder)
                  ELSE s.stats,
        next_order_id |-> s.next_order_id,
        results |-> Append(s.results,
                           RemoveCall(c.order_id, c.user_id, removed))]

\* Mutant of ApiRead: the top of the bids is read with get_first_order, which
\* pushes the ids it pops back onto the tail of the level's queue.
ApiRead_Peeking(s, c) ==
    LET b == s.bids
        top == get_best_bid(b)
    IN [s EXCEPT !.bids = IF top = None THEN b
                          ELSE [b EXCEPT ![top[1]] =
                                   OrderQueue_get_first_order(b[top[1]]).q],
                 !.results = Append(@, [c EXCEPT !.best = top])]

\* The five reads: each takes read guards only and returns a copy.
ApiRead(s, c) ==
    LET done ==
          CASE c.op = "get_best_bid" -> [c EXCEPT !.best = get_best_bid(s.bids)]
            [] c.op = "get_best_ask" -> [c EXCEPT !.best = get_best_ask(s.asks)]
            [] c.op = "get_spread" -> [c EXCEPT !.best = s.stats.spread]
            [] c.op = "get_market_depth" ->
                   [c EXCEPT !.depth = Some(get_market_depth(s.bids, s.asks,
                                                             c.quantity))]
            [] c.op = "get_stats" -> [c EXCEPT !.snapshot = Some(s.stats)]
    IN [s EXCEPT !.results = Append(@, done)]

ApiCall(s, c) ==
    IF c.op = "add_order" THEN ApiAdd(s, c)
    ELSE IF c.op = "remove_order" THEN ApiRemove(s, c)
    ELSE ApiRead(s, c)

RECURSIVE ApiRun(_, _)
ApiRun(s, calls) ==
    IF calls = <<>> THEN s ELSE ApiRun(ApiCall(s, Head(calls)), Tail(calls))

\* One call made on the book, and recorded: r is the book after the call,
\* done the call with its result.
Recorded(c, r, done) ==
    /\ bids' = r.bids
    /\ asks' = r.asks
    /\ stats' = r.stats
    /\ next_order_id' = r.next_order_id
    /\ history' = r.results
    /\ last' = done
    /\ submitted' = IF c.op = "add_order"
                    THEN MapPut(submitted, done.order_id,
                                NewOrder(done.order_id, c.side, c.price,
                                         c.quantity, c.timestamp, c.user_id))
                    ELSE submitted
    /\ filled' = FilledAfter(filled, done.trades)
    /\ rested' = IF c.op = "add_order"
                    /\ remaining_quantity(c.quantity, done.trades) > 0
                 THEN Append(rested, done.order_id) ELSE rested
    /\ cancelled' = IF done.removed # None
                    THEN cancelled \cup {c.order_id} ELSE cancelled
    /\ UNCHANGED <<matching_lock, stats_lock, pc, frame>>

LastOf(results) == results[Len(results)]

Returned(c, r) == Recorded(c, r, LastOf(r.results))

RunCall(c) ==
    /\ Len(history) < MaxRunCalls
    /\ Returned(c, ApiCall(ThisBook, c))

RunAddCall ==
    \E side \in Sides, price \in Prices, quantity \in Quantities,
       timestamp \in CallTimes, user_id \in Users :
        RunCall([NoCall EXCEPT !.op = "add_order", !.side = side, !.price = price,
                               !.quantity = quantity, !.timestamp = timestamp,
                               !.user_id = user_id])

RunRemoveCall ==
    \E order_id \in 1..MaxRunCalls, user_id \in Users :
        RunCall([NoCall EXCEPT !.op = "remove_order", !.order_id = order_id,
                               !.user_id = user_id])

\* get_market_depth is asked for 20 levels by the service; any depth beyond
\* the number of prices gives the same answer.
RunReadCall ==
    \E op \in Reads :
        RunCall([NoCall EXCEPT !.op = op,
                               !.quantity = IF op = "get_market_depth"
                                            THEN MaxPrice + 1 ELSE 0])

NextRuns == RunAddCall \/ RunRemoveCall \/ RunReadCall

SpecRuns == Init /\ [][NextRuns]_vars

----------------------------------------------------------------------------
\* Properties.  In a sequential call the inbound order is last.order_id and the
\* maker of a trade is the other order the trade names.

MakerOf(call, t) == IF call.side = "Bid" THEN t.ask_order_id ELSE t.bid_order_id

ArrivedBefore(a, b) ==
    \E i, j \in 1..Len(rested) : i < j /\ rested[i] = a /\ rested[j] = b

\* The orders resting in a level, in the order in which they came to rest.
ArrivalOrder(level) ==
    LET InLevel(id) == id \in DOMAIN level.orders
    IN SelectSeq(rested, InLevel)

\* The step is a whole add_order call.
IsAddCall == next_order_id' = next_order_id + 1 /\ last'.op = "add_order"

\* The ladder an inbound order of the call just made was matched against, as
\* it was before the call.
OppBefore == IF last'.side = "Bid" THEN asks ELSE bids
OppAfter == IF last'.side = "Bid" THEN asks' ELSE bids'

BothSides == DOMAIN bids # {} /\ DOMAIN asks # {}

\* C1: priority law.  When a trade of an add_order call names maker B, every
\* order A that came to rest before B in B's level and was resting there when
\* the call began has already been consumed in full by the call's earlier
\* trades.
C1_PriorityLaw ==
    [][IsAddCall =>
        \A k \in 1..Len(last'.trades) :
            \A p \in DOMAIN OppBefore :
                LET b == MakerOf(last', last'.trades[k])
                    os == OppBefore[p].orders
                IN b \in DOMAIN os =>
                    \A a \in DOMAIN os :
                        ArrivedBefore(a, b) =>
                            QtyNaming(SubSeq(last'.trades, 1, k - 1), a)
                                >= os[a].quantity]_vars

\* C2: a partially filled maker keeps its place.  When the order that came to
\* rest first among those of a level has been partially filled (its quantity
\* is positive and below its submitted quantity), the first trade the next
\* aggressor makes at that price names it.
C2_PartialFillKeepsPosition ==
    [][IsAddCall =>
        \A p \in DOMAIN OppBefore :
            LET os == OppBefore[p].orders
                m == Head(ArrivalOrder(OppBefore[p]))
                at == {k \in 1..Len(last'.trades) : last'.trades[k].price = p}
            IN (/\ os # <<>>
                /\ os[m].quantity > 0
                /\ os[m].quantity < submitted[m].quantity
                /\ at # {})
               => MakerOf(last', last'.trades[Min(at)]) = m]_vars

\* C3: an inbound order whose quantity is exactly what the best opposite level
\* holds in two or more makers, and whose price crosses it, gets one trade per
\* maker, in the makers' arrival order, each for the maker's quantity at the
\* level's price, and the level is gone afterwards.
C3_OneTradePerMaker ==
    [][IsAddCall =>
        \A p \in DOMAIN OppBefore :
            LET os == OppBefore[p].orders
                ids == ArrivalOrder(OppBefore[p])
                best == IF last'.side = "Bid" THEN Min(DOMAIN OppBefore)
                        ELSE Max(DOMAIN OppBefore)
                held == SumSeq([i \in 1..Len(ids) |-> os[ids[i]].quantity])
            IN (/\ p = best
                /\ IF last'.side = "Bid" THEN last'.price >= p ELSE last'.price <= p
                /\ Len(ids) >= 2
                /\ last'.quantity = held)
               => /\ Len(last'.trades) = Len(ids)
                  /\ \A i \in 1..Len(ids) :
                        /\ MakerOf(last', last'.trades[i]) = ids[i]
                        /\ last'.trades[i].quantity = os[ids[i]].quantity
                        /\ last'.trades[i].price = p
                  /\ p \notin DOMAIN OppAfter]_vars

\* C4: the trades naming an order never add up to more than the quantity it
\* was submitted with.
C4_FilledWithinSubmitted ==
    \A id \in DOMAIN submitted : filled[id] <= submitted[id].quantity

\* The order of the last call is resting on its own side.
LastOrderRests ==
    LET own == IF last.side = "Bid" THEN bids ELSE asks
    IN \E p \in DOMAIN own : last.order_id \in DOMAIN own[p].orders

\* C5: no crossed book.  When both ladders hold a level, the highest bid price
\* is strictly below the lowest ask price.
C5_NoCrossedBook == BothSides => Max(DOMAIN bids) < Min(DOMAIN asks)

\* An order traded, its residue came to rest, and both sides are populated.
C5_Witness ==
    /\ last.op = "add_order"
    /\ last.trades # <<>>
    /\ LastOrderRests
    /\ BothSides

\* C8: every trade of a call is priced at the price its maker was resting at.
C8_TradeAtMakerPrice ==
    last.op = "add_order" =>
        \A k \in 1..Len(last.trades) :
            last.trades[k].price = submitted[MakerOf(last, last.trades[k])].price

\* A trade whose maker price differs from the aggressor's limit.
C8_Witness ==
    /\ last.op = "add_order"
    /\ \E k \in 1..Len(last.trades) : last.trades[k].price # last.price

\* C9: price improvement.  A Bid never trades above its limit, an Ask never
\* below its limit.
C9_PriceImprovement ==
    last.op = "add_order" =>
        \A k \in 1..Len(last.trades) :
            IF last.side = "Bid" THEN last.trades[k].price <= last.price
            ELSE last.trades[k].price >= last.price

\* An Ask that sold strictly above its limit.
C9_Witness ==
    /\ last.op = "add_order"
    /\ last.side = "Ask"
    /\ \E k \in 1..Len(last.trades) : last.trades[k].price > last.price

\* C10: best price first.  Each trade of a call is made at the best opposite
\* price that holds a resting order at that moment (lowest for a Bid, highest
\* for an Ask), and the trade prices never improve along the list.
C10_BestPriceFirst ==
    last.op = "add_order" =>
        /\ \A k \in 1..Len(last.trades) :
              last.trades[k].price =
                  IF last.side = "Bid" THEN Min(last.seen[k]) ELSE Max(last.seen[k])
        /\ \A k \in 1..(Len(last.trades) - 1) :
              IF last.side = "Bid"
              THEN last.trades[k].price <= last.trades[k + 1].price
              ELSE last.trades[k].price >= last.trades[k + 1].price

\* An aggressor that took the best level and then went on to a worse one.
C10_Witness ==
    /\ last.op = "add_order"
    /\ Len(last.trades) >= 2
    /\ last.trades[1].price # last.trades[2].price

\* C11: crossing rule with tie.  An add_order call returns at least one trade
\* exactly when the opposite ladder held a level before the call and its best
\* price crosses the limit, equality included; when it does not cross, the
\* call returns no trade and the order rests at its limit with its full
\* quantity.
C11_CrossingRule ==
    [][IsAddCall =>
        LET crossing ==
                /\ DOMAIN OppBefore # {}
                /\ IF last'.side = "Bid" THEN last'.price >= Min(DOMAIN OppBefore)
                   ELSE last'.price <= Max(DOMAIN OppBefore)
            own == IF last'.side = "Bid" THEN bids' ELSE asks'
        IN /\ (last'.trades # <<>>) <=> crossing
           /\ ~crossing =>
                 /\ last'.trades = <<>>
                 /\ last'.price \in DOMAIN own
                 /\ last'.order_id \in DOMAIN own[last'.price].orders
                 /\ own[last'.price].orders[last'.order_id].quantity
                        = last'.quantity]_vars

\* A Bid that traded at exactly its limit.
C11_Witness ==
    /\ last.op = "add_order"
    /\ last.side = "Bid"
    /\ last.trades # <<>>
    /\ last.trades[1].price = last.price

IsRemoveCall == last'.op = "remove_order"

\* The records stored under id in the levels of the two ladders.
Held(b, a, id) ==
    {b[p].orders[id] : p \in {x \in DOMAIN b : id \in DOMAIN b[x].orders}}
        \cup {a[p].orders[id] : p \in {x \in DOMAIN a : id \in DOMAIN a[x].orders}}

\* C13: cancel succeeds exactly for resting orders of the caller.
\* remove_order(id, user) returns the order if and only if id was submitted by
\* user, the trades naming it so far sum to less than its submitted quantity,
\* and it has not been cancelled before; otherwise it returns None.
C13_CancelExactlyResting ==
    [][IsRemoveCall =>
        LET id == last'.order_id
        IN (last'.removed # None)
           <=> /\ id \in DOMAIN submitted
               /\ submitted[id].user_id = last'.user_id
               /\ submitted[id].quantity - filled[id] > 0
               /\ id \notin cancelled]_vars

\* C14: a failed cancel changes nothing.  When remove_order is called with an
\* id that is not resting, or by a user other than the resting order's owner,
\* it returns None and leaves both ladders (every resting order's quantity
\* and place in its queue) and every field of the statistics as they were;
\* the order, if resting, is still there for its owner to cancel.
C14_FailedCancelChangesNothing ==
    [][IsRemoveCall =>
        LET id == last'.order_id
            held == Held(bids, asks, id)
        IN (held = {} \/ \A o \in held : o.user_id # last'.user_id)
           => /\ last'.removed = None
              /\ bids' = bids
              /\ asks' = asks
              /\ stats' = stats
              /\ \A o \in held :
                    \/ remove_order_scan(bids', id, o.user_id).res = Some(o)
                    \/ remove_order_scan(asks', id, o.user_id).res = Some(o)]_vars

\* A stranger asked to cancel an order that is resting.
C14_Witness ==
    /\ last.op = "remove_order"
    /\ last.removed = None
    /\ \E o \in Held(bids, asks, last.order_id) : o.user_id # last.user_id

\* C15: idempotent cancel.  Once remove_order has succeeded for an id, every
\* later remove_order on that id, by any user and after any further submits,
\* returns None and leaves total_orders_cancelled as it was.
C15_IdempotentCancel ==
    [][(IsRemoveCall /\ last'.order_id \in cancelled) =>
        /\ last'.removed = None
        /\ stats'.total_orders_cancelled = stats.total_orders_cancelled]_vars

\* The owner asked again for an order already cancelled; a later order exists.
C15_Witness ==
    /\ last.op = "remove_order"
    /\ last.order_id \in cancelled
    /\ last.removed = None
    /\ last.user_id = submitted[last.order_id].user_id
    /\ next_order_id > last.order_id + 1

\* C16: a successful cancel returns the unfilled remainder: the submitted
\* quantity minus the quantities of the trades that named the order before
\* the cancel.
C16_CancelReturnsRemainder ==
    [][(IsRemoveCall /\ last'.removed # None) =>
        last'.removed[1].quantity
            = submitted[last'.order_id].quantity - filled[last'.order_id]]_vars

\* C17: an order leaves the book only by being matched in full or by its
\* owner's cancel.  Whenever an order stored in a level before an add_order or
\* remove_order call is no longer stored after it, either the trades naming it
\* sum to its submitted quantity or the call was a successful remove_order
\* with its id by its owner.
C17_LeavesOnlyByMatchOrCancel ==
    [][\A id \in DOMAIN submitted :
        (Held(bids, asks, id) # {} /\ Held(bids', asks', id) = {})
        => \/ filled'[id] = submitted[id].quantity
           \/ /\ last'.op = "remove_order"
              /\ last'.order_id = id
              /\ last'.user_id = submitted[id].user_id
              /\ last'.removed # None]_vars

\* C18: ladder invariant.  Every price key present in the bid or the ask
\* ladder maps to a level that holds at least one resting order.
C18_NoEmptyLevel ==
    /\ \A p \in DOMAIN bids : DOMAIN bids[p].orders # {}
    /\ \A p \in DOMAIN asks : DOMAIN asks[p].orders # {}

\* A cancel took the last order of its level, and the level is gone.
C18_Witness ==
    /\ last.op = "remove_order"
    /\ last.removed # None
    /\ last.removed[1].price \notin
          DOMAIN (IF last.removed[1].side = "Bid" THEN bids ELSE asks)

\* C19: aggregate invariant.  Each level's total_quantity (in millionths) is
\* the sum of the quantities of the orders stored in the level, and it is
\* never below zero.
C19_AggregateIsSum ==
    \A ladder \in {bids, asks} :
        \A p \in DOMAIN ladder :
            LET os == ladder[p].orders
                ids == CHOOSE f \in [1..Cardinality(DOMAIN os) -> DOMAIN os] :
                           \A i, j \in DOMAIN f : f[i] = f[j] => i = j
            IN /\ ladder[p].total_quantity >= 0
               /\ ladder[p].total_quantity * QtyUnit
                     = Scale * SumSeq([i \in DOMAIN ids |-> os[ids[i]].quantity])

\* C20: order ids are unique and strictly increasing in allocation order.
\* Every step that allocates an id gives the new order an id that no earlier
\* order had and that is greater than every id allocated before, whether the
\* earlier orders were filled, cancelled or wiped by clear().
C20_IdsIncrease ==
    [][(next_order_id' # next_order_id \/ submitted' # submitted) =>
        \E id \in DOMAIN submitted' :
            /\ id \notin DOMAIN submitted
            /\ DOMAIN submitted' = DOMAIN submitted \cup {id}
            /\ submitted'[id].id = id
            /\ \A old \in DOMAIN submitted : id > old]_vars

\* An order submitted after clear() wiped earlier orders that no trade had
\* named and nobody had cancelled.
C20_Witness ==
    /\ last.op = "add_order"
    /\ last.order_id > 1
    /\ \A id \in 1..(last.order_id - 1) :
          filled[id] = 0 /\ id \notin cancelled /\ Held(bids, asks, id) = {}

\* C21: invalid input is rejected before id allocation.  A submit whose price
\* or quantity is not positive allocates no order id, returns no trades and
\* leaves the ladders and the statistics as they were.
C21_InvalidInputRejected ==
    [][(last'.op = "add_order" /\ (last'.price <= 0 \/ last'.quantity <= 0)) =>
        /\ next_order_id' = next_order_id
        /\ last'.trades = <<>>
        /\ bids' = bids
        /\ asks' = asks
        /\ stats' = stats]_vars

\* C22: fill roles.  In every fill of a submit response, whichever side the
\* inbound order is on, taker_order_id is the order_id of the response and
\* maker_order_id is the id of the resting order the trade was made against.
C22_FillRoles ==
    last.op = "add_order" =>
        \A k \in 1..Len(last.trades) :
            /\ FillFrom(last.trades[k]).taker_order_id = to_string(last.order_id)
            /\ FillFrom(last.trades[k]).maker_order_id
                  = to_string(MakerOf(last, last.trades[k]))

\* C23: submit status.  The status of a submit response is New if and only if
\* the response has no fills, Filled if and only if the remaining quantity is
\* 0, and PartiallyFilled in every other case; it is never Cancelled.
C23_SubmitStatus ==
    last.op = "add_order" =>
        LET status == OrderStatus(last.quantity, last.trades)
            fills == [k \in 1..Len(last.trades) |-> FillFrom(last.trades[k])]
            remaining ==
                last.quantity - SumSeq([k \in 1..Len(fills) |-> fills[k].quantity])
        IN /\ status \in {"New", "PartiallyFilled", "Filled"}
           /\ (status = "New") <=> (fills = <<>>)
           /\ (status = "Filled") <=> (remaining = 0)
           /\ (status = "PartiallyFilled") <=> (fills # <<>> /\ remaining # 0)

\* A submit that traded and was left with a remainder.
C23_Witness ==
    /\ last.op = "add_order"
    /\ OrderStatus(last.quantity, last.trades) = "PartiallyFilled"

\* C25: statistics counters.  On a fresh book all four counters are 0; every
\* add_order call adds 1 to total_orders_created, the number of its trades to
\* total_orders_matched and the sum of price * quantity over its trades to
\* total_volume_traded; every remove_order call adds 1 to
\* total_orders_cancelled if it succeeded and nothing if it failed.
C25_StatsCounters ==
    /\ stats.total_orders_created = 0
    /\ stats.total_orders_matched = 0
    /\ stats.total_orders_cancelled = 0
    /\ stats.total_volume_traded = 0
    /\ [][(IsAddCall =>
              /\ stats'.total_orders_created = stats.total_orders_created + 1
              /\ stats'.total_orders_matched
                    = stats.total_orders_matched + Len(last'.trades)
              /\ stats'.total_volume_traded
                    = stats.total_volume_traded
                      + SumSeq([k \in 1..Len(last'.trades) |->
                                  last'.trades[k].price * last'.trades[k].quantity])
              /\ stats'.total_orders_cancelled = stats.total_orders_cancelled)
           /\ (IsRemoveCall =>
              /\ stats'.total_orders_created = stats.total_orders_created
              /\ stats'.total_orders_matched = stats.total_orders_matched
              /\ stats'.total_volume_traded = stats.total_volume_traded
              /\ stats'.total_orders_cancelled
                    = stats.total_orders_cancelled
                      + (IF last'.removed # None THEN 1 ELSE 0))]_vars

\* A call made two trades, and later an order was cancelled.
C25_Witness ==
    /\ last.op = "remove_order"
    /\ stats.total_orders_cancelled = 1
    /\ stats.total_orders_matched >= 2
    /\ stats.total_orders_created > stats.total_orders_matched

\* C26: top-of-book statistics track the ladders.  stats.best_bid is the
\* highest bid price and stats.best_ask the lowest ask price (None for an
\* empty side); spread and mid_price are None exactly when a side is empty,
\* and otherwise spread = best_ask - best_bid and
\* mid_price = (best_bid + best_ask) / 2.
C26_TopOfBookStats ==
    /\ stats.best_bid = IF DOMAIN bids = {} THEN None ELSE Some(Max(DOMAIN bids))
    /\ stats.best_ask = IF DOMAIN asks = {} THEN None ELSE Some(Min(DOMAIN asks))
    /\ (stats.spread = None) <=> ~BothSides
    /\ (stats.mid_price = None) <=> ~BothSides
    /\ BothSides =>
          /\ stats.spread = Some(Min(DOMAIN asks) - Max(DOMAIN bids))
          /\ 2 * stats.mid_price[1].num
                = (Max(DOMAIN bids) + Min(DOMAIN asks)) * stats.mid_price[1].den

\* A cancel emptied the bid side while asks remain.
C26_Witness ==
    /\ last.op = "remove_order"
    /\ last.removed # None
    /\ stats.best_bid = None
    /\ stats.best_ask # None

\* The depths asked for: none, fewer than, as many as and more than the
\* levels a side can hold.
Depths == 0..(MaxPrice + 1)

\* The sum of the quantities of the orders stored in a level.
RestingSum(level) ==
    LET ids == CHOOSE f \in [1..Cardinality(DOMAIN level.orders)
                                -> DOMAIN level.orders] :
                   \A i, j \in DOMAIN f : f[i] = f[j] => i = j
    IN SumSeq([i \in DOMAIN ids |-> level.orders[ids[i]].quantity])

\* One side of a depth answer: min(k, levels) entries, the best k prices of
\* the ladder in the side's order, each with a positive quantity that is the
\* sum of the quantities resting at the price.
DepthSideRight(side, ladder, k) ==
    /\ Len(side) = MinOf(k, Cardinality(DOMAIN ladder))
    /\ \A i \in DOMAIN side :
          /\ side[i].price \in DOMAIN ladder
          /\ side[i].quantity.num > 0
          /\ side[i].quantity.num * QtyUnit
                = side[i].quantity.den * RestingSum(ladder[side[i].price])

\* C27: depth.  get_market_depth(k) returns for each side min(k, number of
\* levels) entries: the k highest bid prices in strictly descending order and
\* the k lowest ask prices in strictly ascending order, each with a positive
\* quantity equal to the sum of the quantities resting at that price.
C27_Depth ==
    \A k \in Depths :
        LET d == get_market_depth(bids, asks, k)
        IN /\ DepthSideRight(d.bids, bids, k)
           /\ DepthSideRight(d.asks, asks, k)
           /\ \A i \in 1..(Len(d.bids) - 1) : d.bids[i].price > d.bids[i + 1].price
           /\ \A i \in 1..(Len(d.asks) - 1) : d.asks[i].price < d.asks[i + 1].price
           /\ \A p \in DOMAIN bids :
                 (\A i \in DOMAIN d.bids : d.bids[i].price # p)
                 => \A i \in DOMAIN d.bids : p < d.bids[i].price
           /\ \A p \in DOMAIN asks :
                 (\A i \in DOMAIN d.asks : d.asks[i].price # p)
                 => \A i \in DOMAIN d.asks : p > d.asks[i].price

\* What is left of the last call's order: its quantity minus its trades.
LastRemainder ==
    last.quantity - SumSeq([k \in 1..Len(last.trades) |-> last.trades[k].quantity])

\* C28: the residue rests exactly when it is positive.  After add_order
\* returns, the inbound order is stored at the tail of the level of its own
\* side and price with its submitted quantity minus its trades, if that is
\* positive, and is nowhere in the book if it is 0; and every order stored in
\* the book has a positive quantity.
C28_ResidueRests ==
    /\ \A ladder \in {bids, asks} :
          \A p \in DOMAIN ladder :
              \A id \in DOMAIN ladder[p].orders : ladder[p].orders[id].quantity > 0
    /\ last.op = "add_order" =>
          LET own == IF last.side = "Bid" THEN bids ELSE asks
              id == last.order_id
          IN IF LastRemainder > 0
             THEN /\ last.price \in DOMAIN own
                  /\ id \in DOMAIN own[last.price].orders
                  /\ own[last.price].orders[id].quantity = LastRemainder
                  /\ own[last.price].order_queue
                        [Len(own[last.price].order_queue)] = id
                  /\ Cardinality(Held(bids, asks, id)) = 1
             ELSE Held(bids, asks, id) = {}

\* An order traded part of its quantity and the rest came to rest.
C28_Witness ==
    /\ last.op = "add_order"
    /\ LastRemainder > 0
    /\ LastRemainder < last.quantity
    /\ Held(bids, asks, last.order_id) # {}

\* The sum of the quantities of all orders stored in a ladder.
RECURSIVE LadderSum(_)
LadderSum(ladder) ==
    IF DOMAIN ladder = {} THEN 0
    ELSE LET p == Min(DOMAIN ladder)
         IN RestingSum(ladder[p]) + LadderSum(MapDel(ladder, p))

\* C29: resting quantity is conserved.  On each side the quantity resting
\* starts at 0 and changes only as follows: an add_order call adds what it
\* leaves unfilled to its own side and takes the quantities of its trades from
\* the opposite side, and a successful remove_order takes the quantity it
\* returns from the side of the order it returns.
C29_RestingConserved ==
    /\ LadderSum(bids) = 0
    /\ LadderSum(asks) = 0
    /\ [][LET traded == SumSeq([k \in 1..Len(last'.trades) |->
                                  last'.trades[k].quantity])
              back(side) == IF last'.removed # None /\ last'.removed[1].side = side
                            THEN last'.removed[1].quantity ELSE 0
          IN /\ (IsAddCall /\ last'.side = "Bid") =>
                   /\ LadderSum(bids') = LadderSum(bids) + last'.quantity - traded
                   /\ LadderSum(asks') = LadderSum(asks) - traded
             /\ (IsAddCall /\ last'.side = "Ask") =>
                   /\ LadderSum(asks') = LadderSum(asks) + last'.quantity - traded
                   /\ LadderSum(bids') = LadderSum(bids) - traded
             /\ IsRemoveCall =>
                   /\ LadderSum(bids') = LadderSum(bids) - back("Bid")
                   /\ LadderSum(asks') = LadderSum(asks) - back("Ask")]_vars

----------------------------------------------------------------------------
\* The match loop and the depth of the opposite side

\* C31: submit is bounded by the opposite book's depth.  The match loop of
\* every add_order call ends, and the call makes at most as many trades as
\* there were orders resting on the opposite side when it started.
C31_BoundedByDepth ==
    \A t \in Threads :
        frame[t].call.op = "add_order" =>
            Len(frame[t].call.trades) <= frame[t].resting

----------------------------------------------------------------------------
\* Concurrent calls against serial ones

AllReturned == \A t \in Threads : pc[t] = "idle"

\* What a ladder holds: per price the resting orders and their queue order.
LadderView(ladder) ==
    [p \in DOMAIN ladder |->
        LET Live(id) == id \in DOMAIN ladder[p].orders
        IN [orders |-> ladder[p].orders,
            fifo |-> SelectSeq(ladder[p].order_queue, Live)]]

\* One recorded call run alone on book s, with the order id it was given: the
\* book afterwards, and whether the call returns what was recorded.
SerialCall(s, c) ==
    IF c.op = "add_order"
    THEN LET order == NewOrder(c.order_id, c.side, c.price, c.quantity,
                               c.timestamp, c.user_id)
             m == match_order(s.bids, s.asks, order)
             r == RestResidue(m.bids, m.asks, m.order)
         IN [bids |-> r.bids, asks |-> r.asks, ok |-> s.ok /\ m.trades = c.trades]
    ELSE LET rb == remove_order_scan(s.bids, c.order_id, c.user_id)
             ra == IF rb.res = None
                   THEN remove_order_scan(s.asks, c.order_id, c.user_id)
                   ELSE [ladder |-> s.asks, res |-> None]
             removed == IF rb.res # None THEN rb.res ELSE ra.res
         IN [bids |-> rb.ladder, asks |-> ra.ladder,
             ok |-> s.ok /\ removed = c.removed]

RECURSIVE SerialRun(_, _)
SerialRun(s, calls) ==
    IF calls = <<>> THEN s ELSE SerialRun(SerialCall(s, Head(calls)), Tail(calls))

Orderings(n) == {f \in [1..n -> 1..n] : \A i, j \in 1..n : f[i] = f[j] => i = j}

\* C6: mutation serialization.  Once every call has returned, some serial
\* order of the calls made returns the same trades and cancel results to each
\* call and leaves the same book.
C6_Serializable ==
    AllReturned =>
        \E f \in Orderings(Len(history)) :
            LET run == SerialRun([bids |-> <<>>, asks |-> <<>>, ok |-> TRUE],
                                 [i \in 1..Len(history) |-> history[f[i]]])
            IN /\ run.ok
               /\ LadderView(run.bids) = LadderView(bids)
               /\ LadderView(run.asks) = LadderView(asks)

\* C7: once every concurrent call has returned, the book is not crossed.
C7_NotCrossedWhenReturned ==
    AllReturned => (BothSides => Max(DOMAIN bids) < Min(DOMAIN asks))

----------------------------------------------------------------------------
\* Statistics under concurrent calls

\* One recorded call run alone on book s, statistics included.
SerialStatsCall(s, c) ==
    IF c.op = "add_order"
    THEN LET order == NewOrder(c.order_id, c.side, c.price, c.quantity,
                               c.timestamp, c.user_id)
             m == match_order(s.bids, s.asks, order)
             r == RestResidue(m.bids, m.asks, m.order)
         IN [bids |-> r.bids, asks |-> r.asks,
             stats |-> update_stats_internal(
                           StatsOnAdd(s.stats, m.trades, c.timestamp),
                           r.bids, r.asks)]
    ELSE LET rb == remove_order_scan(s.bids, c.order_id, c.user_id)
             ra == IF rb.res = None
                   THEN remove_order_scan(s.asks, c.order_id, c.user_id)
                   ELSE [ladder |-> s.asks, res |-> None]
         IN [bids |-> rb.ladder, asks |-> ra.ladder,
             stats |-> IF rb.res # None \/ ra.res # None
                       THEN update_stats_internal(StatsOnCancel(s.stats),
                                                  rb.ladder, ra.ladder)
                       ELSE s.stats]

RECURSIVE SerialStatsRun(_, _)
SerialStatsRun(s, calls) ==
    IF calls = <<>> THEN s
    ELSE SerialStatsRun(SerialStatsCall(s, Head(calls)), Tail(calls))

\* The calls made so far: those that returned and those still running.
CallsMade ==
    LET running == {t \in Threads : pc[t] # "idle"}
        order == CHOOSE f \in [1..Cardinality(running) -> running] :
                     \A i, j \in DOMAIN f : f[i] = f[j] => i = j
    IN history \o [i \in DOMAIN order |-> frame[order[i]].call]

\* The ways of running k of n calls one after another.
Arrangements(n) ==
    UNION {{f \in [1..k -> 1..n] : \A i, j \in 1..k : f[i] = f[j] => i = j} :
           k \in 0..n}

\* C24: statistics snapshots are consistent.  get_stats returns the statistics
\* whenever no writer holds them; what it returns is the statistics of the
\* book after some of the calls made so far, run one after another in some
\* order.
C24_StatsSnapshotConsistent ==
    stats_lock = None =>
        \E f \in Arrangements(Len(CallsMade)) :
            SerialStatsRun([bids |-> <<>>, asks |-> <<>>,
                            stats |-> OrderBookStats_new],
                           [i \in DOMAIN f |-> CallsMade[f[i]]]).stats = stats

----------------------------------------------------------------------------
\* Locks held and locks waited for

\* The locks a thread holds between two steps.
Holds(t) ==
    (IF matching_lock = Some(t) THEN {"matching"} ELSE {})
        \cup (IF stats_lock = Some(t) THEN {"stats"} ELSE {})
        \cup (IF pc[t] \in {"clear_asks", "clear_stats"} THEN {"bids"} ELSE {})
        \cup (IF pc[t] = "clear_stats" THEN {"asks"} ELSE {})

\* The lock a thread's next step takes.
Wants(t) ==
    CASE pc[t] = "match_lock" -> {"matching"}
      [] pc[t] \in {"match_peek", "match_body"} -> {OppositeName(t)}
      [] pc[t] = "rest" -> IF frame[t].order.quantity > 0 THEN {OwnName(t)} ELSE {}
      [] pc[t] \in {"stats_lock", "clear_stats"} -> {"stats"}
      [] pc[t] = "stats_bid" -> {"bids"}
      [] pc[t] \in {"stats_ask", "remove_asks", "clear_asks", "depth_asks"} -> {"asks"}
      [] OTHER -> {}

\* C30: no deadlock.  There is no state in which two threads each hold a lock
\* (bids, asks, stats, matching_lock) that the other is waiting for.
C30_NoDeadlock ==
    \A t1, t2 \in Threads :
        t1 # t2 => ~(Wants(t1) \cap Holds(t2) # {} /\ Wants(t2) \cap Holds(t1) # {})

----------------------------------------------------------------------------
\* Recorded runs, and the same calls made again with other inputs

\* The calls of the run that produced at least one trade.
Traded == {i \in DOMAIN history :
              history[i].op = "add_order" /\ history[i].trades # <<>>}

\* C32: last_match_time is None until the first trade and from then on the
\* timestamp of the most recent add_order call that produced a trade; calls
\* that produce no trade, and remove_order calls, leave it as it is.
C32_LastMatchTime ==
    stats.last_match_time
        = IF Traded = {} THEN None ELSE Some(history[Max(Traded)].timestamp)

\* Two calls traded, the later one with the earlier timestamp.
C32_Witness ==
    /\ Len(history) = 3
    /\ Traded = {2, 3}
    /\ history[3].timestamp < history[2].timestamp
    /\ stats.last_match_time = Some(history[3].timestamp)

\* C33: every trade's timestamp is the smaller of the inbound order's
\* timestamp and the timestamp of the maker the trade names.
C33_TradeTimestamp ==
    \A i \in DOMAIN history :
        history[i].op = "add_order" =>
            \A k \in DOMAIN history[i].trades :
                LET trade == history[i].trades[k]
                    maker == submitted[MakerOf(history[i], trade)]
                IN trade.timestamp = MinOf(history[i].timestamp, maker.timestamp)

\* A trade took the maker's timestamp, which is earlier than the inbound one.
C33_Witness ==
    /\ last.op = "add_order"
    /\ last.trades # <<>>
    /\ last.trades[1].timestamp < last.timestamp
    /\ submitted[MakerOf(last, last.trades[1])].timestamp = last.trades[1].timestamp

\* What the caller passed to a recorded call.
InputOf(c) ==
    [c EXCEPT !.order_id = IF c.op = "remove_order" THEN @ ELSE 0,
              !.trades = <<>>, !.seen = <<>>, !.removed = None, !.depth = None,
              !.snapshot = None, !.best = None]

Inputs(calls) == [i \in DOMAIN calls |-> InputOf(calls[i])]

\* Trades, orders and ladders with the timestamps left out.
UntimedTrades(trades) == [k \in DOMAIN trades |-> [trades[k] EXCEPT !.timestamp = 0]]

UntimedOrders(orders) == [id \in DOMAIN orders |-> [orders[id] EXCEPT !.timestamp = 0]]

UntimedLadder(ladder) ==
    [p \in DOMAIN ladder |->
        [orders |-> UntimedOrders(ladder[p].orders),
         order_queue |-> ladder[p].order_queue,
         total_quantity |-> ladder[p].total_quantity]]

UntimedRemoved(removed) ==
    IF removed = None THEN None ELSE Some([removed[1] EXCEPT !.timestamp = 0])

\* C34: timestamps do not affect priority.  The calls of a run, made again
\* with any other timestamps, produce the same trades in the same order (maker
\* and taker ids, prices, quantities), the same cancel results and the same
\* resting book; only timestamps differ.
C34_TimestampsNoPriority ==
    \A alt \in [DOMAIN history -> CallTimes] :
        LET calls == [i \in DOMAIN history |->
                        [InputOf(history[i]) EXCEPT
                            !.timestamp = IF history[i].op = "add_order"
                                          THEN alt[i] ELSE @]]
            run == ApiRun(NewBook, calls)
        IN /\ \A i \in DOMAIN history :
                /\ UntimedTrades(run.results[i].trades)
                      = UntimedTrades(history[i].trades)
                /\ UntimedRemoved(run.results[i].removed)
                      = UntimedRemoved(history[i].removed)
           /\ UntimedLadder(run.bids) = UntimedLadder(bids)
           /\ UntimedLadder(run.asks) = UntimedLadder(asks)

\* Two orders rest at one price, the one that arrived first with the later
\* timestamp, and a third order trades against that level.
C34_Witness ==
    /\ Len(history) = 3
    /\ history[1].op = "add_order" /\ history[2].op = "add_order"
    /\ history[1].side = history[2].side
    /\ history[1].price = history[2].price
    /\ history[1].timestamp > history[2].timestamp
    /\ history[2].trades = <<>>
    /\ history[3].op = "add_order" /\ history[3].trades # <<>>

\* Orders and ladders with the users left out.
UnownedOrders(orders) ==
    [id \in DOMAIN orders |-> [orders[id] EXCEPT !.user_id = "none"]]

UnownedLadder(ladder) ==
    [p \in DOMAIN ladder |->
        [orders |-> UnownedOrders(ladder[p].orders),
         order_queue |-> ladder[p].order_queue,
         total_quantity |-> ladder[p].total_quantity]]

AddsOnly == \A i \in DOMAIN history : history[i].op = "add_order"

\* C35: owners do not affect matching.  The add_order calls of a run, made
\* again with any other users, produce the same trades and the same resting
\* book; an order trades against a resting order of its own user as it would
\* against another user's.
C35_OwnersNoEffect ==
    AddsOnly =>
        \A alt \in [DOMAIN history -> Users] :
            LET calls == [i \in DOMAIN history |->
                            [InputOf(history[i]) EXCEPT !.user_id = alt[i]]]
                run == ApiRun(NewBook, calls)
            IN /\ \A i \in DOMAIN history :
                    run.results[i].trades = history[i].trades
               /\ UnownedLadder(run.bids) = UnownedLadder(bids)
               /\ UnownedLadder(run.asks) = UnownedLadder(asks)

\* An order traded against a resting order of the same user.
C35_Witness ==
    /\ AddsOnly
    /\ last.op = "add_order"
    /\ last.trades # <<>>
    /\ submitted[MakerOf(last, last.trades[1])].user_id = last.user_id

IsWrite(c) == c.op \notin Reads

\* C36: reads do not mutate.  The book after a run (ladders with every
\* level's orders and queue, id counter, statistics) is the book after the
\* run's add_order and remove_order calls alone, and these calls return the
\* same results whether or not reads were made between them.
C36_ReadsDoNotMutate ==
    LET run == ApiRun(NewBook, SelectSeq(Inputs(history), IsWrite))
    IN /\ run.bids = bids
       /\ run.asks = asks
       /\ run.next_order_id = next_order_id
       /\ run.stats = stats
       /\ run.results = SelectSeq(history, IsWrite)

\* A read was made on a book holding an order, and a later order traded.
C36_Witness ==
    /\ Len(history) = 3
    /\ history[1].op = "add_order"
    /\ history[2].op \in Reads
    /\ history[3].op = "add_order" /\ history[3].trades # <<>>

====
